---- MODULE Spec2Model ----
(***************************************************************************)
(* Model of the debate service: the DebateOrchestrator.run generator, the  *)
(* Fastify handlers that start a debate and stream it (the activeDebates   *)
(* map), the SQLite TraceStore, and the calls of the OllamaClient.         *)
(*                                                                         *)
(* Texts are sequences of one-character strings.  The Skeptic's readiness  *)
(* sentinel 'Ready for Synthesis <check>' is the two-character text        *)
(* <<"R","S">> (so that it can arrive split over two deltas) and the       *)
(* critical-severity marker (red circle) is the one-character text         *)
(* <<"C">>.  randomUUID() is a counter that never repeats.  The clock      *)
(* advances one unit for every awaited backend result, so a turn's         *)
(* duration is the number of deltas it received.                           *)
(***************************************************************************)
EXTENDS Integers, Sequences, FiniteSets, TLC

\* ------------------------------------------------------------------ bounds
MaxDebates == 1      \* POST /api/reason requests that are accepted
MaxSubscribers == 2  \* GET /api/reason/:id/stream requests
MaxDeltas == 2       \* deltas the backend produces for one debate
MaxLoad == 3         \* debates, and streams, of the admission runs (LoadSpec)
MaxRuns == 2         \* runs of indexTemplates (RagSpec)
MaxRecords == 2      \* records of a streamed reply (StreamSpec)
MaxCuts == 2         \* places where the network cuts a reply (StreamSpec)

\* --------------------------------------------------------------- constants
NULL == -1           \* JS null / SQL NULL (outside every value range used)
NoId == 0            \* no uuid assigned yet
DefaultMaxRounds == 4
DefaultMinRounds == 3
MinRating == 1
MaxRating == 10
MinScore == 1
MaxScore == 10
DefaultScore == 5
ConcurrencyCap == 2  \* the documented number of simultaneous debates
MaxQueryLength == 4000  \* the documented longest query
RetryAttempts == 3   \* withRetry(fn, attempts = 3)

READY == <<"R", "S">>
CRITICAL == <<"C">>

ProposerDeltas == {<<"p">>}
SkepticDeltas == {<<"R">>, <<"S">>, <<"C">>}
SynthesizerDeltas == {<<"a">>}

\* request inputs: 0 stands for a field that is absent (or falsy) in the body
Bodies == {[maxRounds |-> 0, minRounds |-> 0], [maxRounds |-> -1, minRounds |-> 0],
           [maxRounds |-> 1, minRounds |-> 1], [maxRounds |-> 2, minRounds |-> 0],
           [maxRounds |-> 2, minRounds |-> 1]}
Queries == {"", "q"}

\* request bodies whose query is absent, is the number 42, or is a string of
\* MaxQueryLength + 1 characters
Undefined == "<undefined>"
NotAString == "<42>"
LongQuery == "<x.repeat(4001)>"
AnyQueries == Queries \cup {Undefined, NotAString, LongQuery}
Ratings == {0, 7, 11}

\* what rag.search resolves to when it does not throw
RagResults == {<<"chain-of-thought">>}

\* what the judge model's reply looks like to autoScore
JudgeReplies == {[kind |-> "json", score |-> 12], [kind |-> "throw"],
                 [kind |-> "text", digit |-> 0]}

VARIABLES nextUuid, activeDebates, gen, queue, subs, dbTraces, dbRounds, client, rag

vars == <<nextUuid, activeDebates, gen, queue, subs, dbTraces, dbRounds, client, rag>>

\* ----------------------------------------------------------- pure helpers
Subscribers == 1..MaxSubscribers

\* String.prototype.includes
Includes(text, pat) ==
  \E i \in 1..(Len(text) - Len(pat) + 1) : SubSeq(text, i, i + Len(pat) - 1) = pat

\* x || y on numbers: 0 is falsy
OrElse(x, y) == IF x = 0 THEN y ELSE x

getDebateConfig(body) ==
  [maxRounds |-> OrElse(body.maxRounds, DefaultMaxRounds),
   minRounds |-> OrElse(body.minRounds, DefaultMinRounds),
   proposerModel |-> "qwen3:32b",
   skepticModel |-> "llama3.3:70b",
   synthesizerModel |-> "qwen3:32b"]

\* faulty variant: minRounds is checked before the readiness sentinel
shouldTerminateMinFirst(config, critique, roundNum) ==
  IF roundNum >= config.maxRounds THEN TRUE
  ELSE IF roundNum < config.minRounds THEN FALSE
  ELSE Includes(critique, READY) \/ ~Includes(critique, CRITICAL)

\* faulty variant: the critical marker is not looked for
shouldTerminateAtMin(config, critique, roundNum) ==
  IF Includes(critique, READY) THEN TRUE
  ELSE IF roundNum >= config.maxRounds THEN TRUE
  ELSE IF roundNum >= config.minRounds THEN TRUE
  ELSE FALSE

shouldTerminate(config, critique, roundNum) ==
  IF Includes(critique, READY) THEN TRUE
  ELSE IF roundNum >= config.maxRounds THEN TRUE
  ELSE IF roundNum >= config.minRounds /\ ~Includes(critique, CRITICAL) THEN TRUE
  ELSE FALSE

\* faulty variant: response = chunk
accumulateLast(response, chunk) == chunk

\* response += chunk
accumulate(response, chunk) == response \o chunk

\* faulty variant: the parsed score is used as it is
ClampNone(n) == n

\* Math.min(10, Math.max(1, parseInt(match[1], 10)))
Clamp(n) == IF n > MaxScore THEN MaxScore ELSE IF n < MinScore THEN MinScore ELSE n

\* faulty variant: the error of the judge's chat is not caught
autoScoreRethrows(reply) ==
  IF reply.kind = "throw" THEN [threw |-> TRUE, score |-> NULL]
  ELSE IF reply.kind = "json" THEN [threw |-> FALSE, score |-> Clamp(reply.score)]
  ELSE [threw |-> FALSE, score |-> DefaultScore]

\* threw: whether the call ends with an exception; score: what it returns
autoScore(reply) ==
  [threw |-> FALSE,
   score |-> IF reply.kind = "throw" THEN DefaultScore
             ELSE IF reply.kind = "json" THEN Clamp(reply.score)
             ELSE IF reply.digit \in {8, 9, 10} THEN 8
             ELSE IF reply.digit = 7 THEN 7
             ELSE IF reply.digit = 6 THEN 6
             ELSE DefaultScore]

\* whether the judge gave a score: its chat did not throw and its reply holds
\* a score object or one of the digits looked for
judged(reply) ==
  IF reply.kind = "throw" THEN "failed"
  ELSE IF reply.kind = "json" THEN "scored"
  ELSE IF reply.digit \in 6..10 THEN "scored" ELSE "failed"


\* ------------------------------------------------------------ trace store
\* what SQLite may do to a statement of the transaction: run it, or raise an
\* I/O error at the INSERT of the trace row or at the INSERT of the last round
Faults == {"none", "trace", "round"}

traceRow(id, trace) ==
  [id |-> id,
   created_at |-> "CURRENT_TIMESTAMP",
   query |-> trace.query,
   final_answer |-> trace.finalAnswer,
   total_rounds |-> trace.totalRounds,
   early_stopped |-> IF trace.earlyStopped THEN 1 ELSE 0,
   quality_score |-> trace.qualityScore,
   user_rating |-> trace.userRating,
   auto_score |-> trace.autoScore,
   proposer_model |-> trace.models.proposer,
   skeptic_model |-> trace.models.skeptic,
   synthesizer_model |-> trace.models.synthesizer,
   embedding_model |-> trace.models.embedding,
   total_duration_ms |-> trace.timing.totalMs,
   rag_duration_ms |-> trace.timing.ragMs,
   synthesis_duration_ms |-> trace.timing.synthesisMs,
   templates_used |-> trace.templatesUsed]

roundRow(id, round) ==
  [trace_id |-> id,
   round_number |-> round.round,
   proposer_response |-> round.proposerResponse,
   skeptic_response |-> round.skepticResponse,
   proposer_duration_ms |-> round.proposerDurationMs,
   skeptic_duration_ms |-> round.skepticDurationMs]

\* faulty variant: INSERT OR REPLACE INTO traces
insertTraceReplace(traces, row, fault) ==
  IF fault = "trace"
  THEN [ok |-> FALSE, traces |-> traces]
  ELSE [ok |-> TRUE, traces |-> {t \in traces : t.id # row.id} \cup {row}]

\* INSERT INTO traces: id is the PRIMARY KEY
insertTrace(traces, row, fault) ==
  IF fault = "trace" \/ \E t \in traces : t.id = row.id
  THEN [ok |-> FALSE, traces |-> traces]
  ELSE [ok |-> TRUE, traces |-> traces \cup {row}]

\* for (const round of trace.rounds) insertRound.run(...): UNIQUE(trace_id,
\* round_number); stops at the first statement that throws
RECURSIVE insertRounds(_, _, _, _, _)
insertRounds(rounds, id, list, i, fault) ==
  IF i > Len(list) THEN [ok |-> TRUE, rounds |-> rounds]
  ELSE IF (fault = "round" /\ i = Len(list))
          \/ \E r \in rounds : r.trace_id = id /\ r.round_number = list[i].round
       THEN [ok |-> FALSE, rounds |-> rounds]
       ELSE insertRounds(rounds \cup {roundRow(id, list[i])}, id, list, i + 1, fault)

\* faulty variant: the statements run outside a transaction, so what was inserted
\* before the statement that throws stays
saveTraceNoRollback(traces, rounds, trace, fault) ==
  LET a == insertTrace(traces, traceRow(trace.id, trace), fault)
      b == IF a.ok THEN insertRounds(rounds, trace.id, trace.rounds, 1, fault)
           ELSE [ok |-> FALSE, rounds |-> rounds]
  IN [ok |-> a.ok /\ b.ok, traces |-> a.traces, rounds |-> b.rounds]

\* faulty variant: the error of a rolled back transaction is swallowed
saveTraceSwallow(traces, rounds, trace, fault) ==
  LET a == insertTrace(traces, traceRow(trace.id, trace), fault)
      b == IF a.ok THEN insertRounds(rounds, trace.id, trace.rounds, 1, fault)
           ELSE [ok |-> FALSE, rounds |-> rounds]
  IN IF a.ok /\ b.ok
     THEN [ok |-> TRUE, traces |-> a.traces, rounds |-> b.rounds]
     ELSE [ok |-> TRUE, traces |-> traces, rounds |-> rounds]

\* this.db.transaction(...)(): commit when no statement threw, roll back otherwise
saveTrace(traces, rounds, trace, fault) ==
  LET a == insertTrace(traces, traceRow(trace.id, trace), fault)
      b == IF a.ok THEN insertRounds(rounds, trace.id, trace.rounds, 1, fault)
           ELSE [ok |-> FALSE, rounds |-> rounds]
  IN IF a.ok /\ b.ok
     THEN [ok |-> TRUE, traces |-> a.traces, rounds |-> b.rounds]
     ELSE [ok |-> FALSE, traces |-> traces, rounds |-> rounds]

\* SELECT * FROM rounds WHERE trace_id = ? ORDER BY round_number ASC
roundRowsOf(rounds, id) ==
  LET S == {r \in rounds : r.trace_id = id}
  IN CHOOSE f \in [1..Cardinality(S) -> S] :
       /\ \A i, j \in 1..Cardinality(S) : i < j => f[i].round_number < f[j].round_number

rowToTrace(row, roundRows) ==
  LET rs == [i \in 1..Len(roundRows) |->
               [round |-> roundRows[i].round_number,
                proposerResponse |-> roundRows[i].proposer_response,
                skepticResponse |-> roundRows[i].skeptic_response,
                proposerDurationMs |-> roundRows[i].proposer_duration_ms,
                skepticDurationMs |-> roundRows[i].skeptic_duration_ms]]
  IN [id |-> row.id,
      createdAt |-> row.created_at,
      query |-> row.query,
      finalAnswer |-> row.final_answer,
      totalRounds |-> row.total_rounds,
      earlyStopped |-> (row.early_stopped = 1),
      qualityScore |-> row.quality_score,
      userRating |-> row.user_rating,
      autoScore |-> row.auto_score,
      templatesUsed |-> row.templates_used,
      rounds |-> rs,
      models |-> [proposer |-> row.proposer_model,
                  skeptic |-> row.skeptic_model,
                  synthesizer |-> row.synthesizer_model,
                  embedding |-> row.embedding_model],
      timing |-> [totalMs |-> row.total_duration_ms,
                  ragMs |-> row.rag_duration_ms,
                  roundsMs |-> [i \in 1..Len(rs) |->
                                  rs[i].proposerDurationMs + rs[i].skepticDurationMs],
                  synthesisMs |-> row.synthesis_duration_ms]]

NoTrace == [id |-> NoId]

\* getTrace(id): NoTrace stands for null
getTrace(traces, rounds, id) ==
  IF \E t \in traces : t.id = id
  THEN rowToTrace(CHOOSE t \in traces : t.id = id, roundRowsOf(rounds, id))
  ELSE NoTrace

\* faulty variant: UPDATE traces SET user_rating = ? without the WHERE clause
rateTraceEveryRow(traces, id, rating) ==
  {[t EXCEPT !.user_rating = rating] : t \in traces}

\* UPDATE traces SET user_rating = ? WHERE id = ?
rateTrace(traces, id, rating) ==
  {IF t.id = id THEN [t EXCEPT !.user_rating = rating] ELSE t : t \in traces}

\* column >= ? in a WHERE clause: a NULL column never satisfies it
sqlGe(column, q) == column # NULL /\ column >= q

\* the minQuality values the list and the export are asked for
QualityLevels == {6, 8}

\* listTraces({ minQuality }): WHERE (quality_score >= ? OR user_rating >= ?);
\* the page (LIMIT 20 OFFSET 0) holds every row of the stores considered here
listTraces(traces, rounds, minQuality) ==
  {rowToTrace(row, roundRowsOf(rounds, row.id)) :
     row \in {t \in traces : sqlGe(t.quality_score, minQuality)
                               \/ sqlGe(t.user_rating, minQuality)}}

\* getFineTuneTraces(minQuality): WHERE quality_score >= ? OR user_rating >= ?
getFineTuneTraces(traces, rounds, minQuality) ==
  {rowToTrace(row, roundRowsOf(rounds, row.id)) :
     row \in {t \in traces : sqlGe(t.quality_score, minQuality)
                               \/ sqlGe(t.user_rating, minQuality)}}


\* ------------------------------------------------------------ orchestrator
\* faulty variant: run is an ordinary async function that has started the
\* retrieval when the handler gets its return value
newGeneratorStarted(query, config) ==
  [pc |-> "rag_start", query |-> query, config |-> config, traceId |-> NoId,
   rounds |-> <<>>, templates |-> <<>>, finalAnswer |-> <<>>,
   ragDuration |-> 0, synthesisDuration |-> 0, earlyStopped |-> FALSE,
   round |-> 0, proposerResponse |-> <<>>, skepticResponse |-> <<>>,
   proposerDuration |-> 0, ticks |-> 0, deltas |-> 0, judge |-> "none",
   events |-> <<[type |-> "rag_start"]>>]

\* the generator object orchestrator.run(query) before its first next()
newGenerator(query, config) ==
  [pc |-> "created", query |-> query, config |-> config, traceId |-> NoId,
   rounds |-> <<>>, templates |-> <<>>, finalAnswer |-> <<>>,
   ragDuration |-> 0, synthesisDuration |-> 0, earlyStopped |-> FALSE,
   round |-> 0, proposerResponse |-> <<>>, skepticResponse |-> <<>>,
   proposerDuration |-> 0, ticks |-> 0, deltas |-> 0, judge |-> "none",
   events |-> <<>>]

\* faulty variant: the error is caught and reported inside the pipeline, which goes on
failedAndContinue(g, error) ==
  [g |-> g, ev |-> [type |-> "error", error |-> error]]

\* catch (error) { yield { type: 'error', error: errorMessage } }: the
\* message names what threw
failed(g, error) ==
  [g |-> [g EXCEPT !.pc = "error"], ev |-> [type |-> "error", error |-> error]]

\* for (let round = ...; round <= this.config.maxRounds; ...) with the code
\* that follows the loop up to its first yield
loopHead(g, round) ==
  IF round <= g.config.maxRounds
  THEN [g |-> [g EXCEPT !.pc = "round_start", !.round = round],
        ev |-> [type |-> "round_start", round |-> round]]
  ELSE [g |-> [g EXCEPT !.pc = "synthesis", !.round = round, !.ticks = 0],
        ev |-> [type |-> "synthesis_start"]]

\* faulty variant: rounds are numbered from 0
pushRoundZeroBased(g) ==
  Append(g.rounds, [round |-> Len(g.rounds),
                    proposerResponse |-> g.proposerResponse,
                    skepticResponse |-> g.skepticResponse,
                    proposerDurationMs |-> g.proposerDuration,
                    skepticDurationMs |-> g.ticks])

\* rounds.push({...})
pushRound(g) ==
  Append(g.rounds, [round |-> g.round,
                    proposerResponse |-> g.proposerResponse,
                    skepticResponse |-> g.skepticResponse,
                    proposerDurationMs |-> g.proposerDuration,
                    skepticDurationMs |-> g.ticks])

\* the code between the skeptic_complete yield and the next yield
afterSkeptic(g) ==
  LET g1 == [g EXCEPT !.rounds = pushRound(g)]
  IN IF shouldTerminate(g.config, g.skepticResponse, g.round)
     THEN [g |-> [g1 EXCEPT !.earlyStopped = TRUE, !.pc = "early_stop"],
           ev |-> [type |-> "early_stop", round |-> g.round]]
     ELSE loopHead(g1, g.round + 1)

\* const trace: DebateTrace = {...}
buildTrace(g, score) ==
  [id |-> g.traceId,
   createdAt |-> "toISOString",
   query |-> g.query,
   templatesUsed |-> g.templates,
   rounds |-> g.rounds,
   finalAnswer |-> g.finalAnswer,
   totalRounds |-> Len(g.rounds),
   earlyStopped |-> g.earlyStopped,
   qualityScore |-> NULL,
   userRating |-> NULL,
   autoScore |-> score,
   models |-> [proposer |-> g.config.proposerModel,
               skeptic |-> g.config.skepticModel,
               synthesizer |-> g.config.synthesizerModel,
               embedding |-> "nomic-embed-text"],
   timing |-> [totalMs |-> 1 + g.deltas,
               ragMs |-> g.ragDuration,
               roundsMs |-> [i \in 1..Len(g.rounds) |->
                               g.rounds[i].proposerDurationMs + g.rounds[i].skepticDurationMs],
               synthesisMs |-> g.synthesisDuration]]

\* ----------------------------------------------------------- OllamaClient
\* one call of the client: the method, where it is (idle, fetching, backoff,
\* reading, done), the index i of withRetry's loop, the fetch() calls made,
\* the abort timer (none, armed, fired, cleared), the error of each failed
\* attempt, the deltas yielded and how the call ended
NoCall ==
  [op |-> "none", pc |-> "idle", i |-> 0, fetches |-> 0, timer |-> "none",
   errors |-> <<>>, body |-> <<>>, yielded |-> <<>>, outcome |-> "none"]

\* the streamed bodies a backend answers with: the k-th line carries delta k
ResponseBodies == {[k \in 1..n |-> k] : n \in 0..MaxDeltas}

\* chat and generate arm an abort timer and stream; embed does neither
Methods == {"chat", "generate", "embed"}

\* the first next() of chat/generate, or the call of embed, up to the first fetch
newCall(op) ==
  [NoCall EXCEPT !.op = op, !.pc = "fetching", !.fetches = 1,
                 !.timer = IF op = "embed" THEN "none" ELSE "armed"]

\* finally { clearTimeout(timeoutId) }
clearTimeout(timer) == IF timer = "armed" THEN "cleared" ELSE timer

\* withRetry's catch: remember the error, sleep and go round the loop, or
\* throw it after the last attempt
withRetryCatch(c, err) ==
  IF c.i < RetryAttempts - 1
  THEN [c EXCEPT !.pc = "backoff", !.errors = Append(@, err)]
  ELSE [c EXCEPT !.pc = "done", !.errors = Append(@, err), !.outcome = err,
                 !.timer = clearTimeout(@)]

\* ----------------------------------------------------------- RAG retriever
\* the template files the directories may hold, in the order indexTemplates
\* reads them; the third has the name of the second in another spelling
ChainOfThought == [filePath |-> "bot-buffer/chain-of-thought.md", name |-> <<"C", "o", "T">>]
TreeOfThoughts == [filePath |-> "bot-buffer/tree-of-thoughts.md", name |-> <<"T", "o", "T">>]
UserTemplate == [filePath |-> "templates/tot.md", name |-> <<"t", "o", "t", " ", "!">>]
TemplateFiles == <<ChainOfThought, TreeOfThoughts, UserTemplate>>

\* cosine distances, and similarity scores, in hundredths
Distances == {0, 60, 70, 100}
SimilarityThreshold == 65
DefaultTopK == 3

toLowerCase(c) ==
  IF c = "C" THEN "c" ELSE IF c = "T" THEN "t" ELSE c

AlphaNumeric == {"c", "o", "t"}

\* .replace(/[^a-z0-9]+/g, '-'): every run of other characters becomes one '-'
RECURSIVE replaceRuns(_, _)
replaceRuns(name, n) ==
  IF n = 0 THEN <<>>
  ELSE IF name[n] \in AlphaNumeric THEN Append(replaceRuns(name, n - 1), name[n])
  ELSE IF n > 1 /\ name[n - 1] \notin AlphaNumeric THEN replaceRuns(name, n - 1)
  ELSE Append(replaceRuns(name, n - 1), "-")

\* .replace(/^-|-$/g, '')
trimHyphens(t) ==
  LET a == IF t # <<>> /\ t[1] = "-" THEN Tail(t) ELSE t
  IN IF a # <<>> /\ a[Len(a)] = "-" THEN SubSeq(a, 1, Len(a) - 1) ELSE a

slugify(name) ==
  trimHyphens(replaceRuns([i \in 1..Len(name) |-> toLowerCase(name[i])], Len(name)))

\* the retriever before indexTemplates has run: files are the templates on
\* disk, down the files whose embedding request fails, strict whether the
\* collection refuses a batch that names an id twice (it keeps the last
\* record otherwise), runs the number of runs of indexTemplates
newRetriever(files, down, strict) ==
  [files |-> files, down |-> down, strict |-> strict, collection |-> <<>>,
   runs |-> 0, indexed |-> NULL, found |-> <<>>]

\* the records indexTemplates builds: one for each file whose embedding came
RECURSIVE readTemplates(_, _, _)
readTemplates(files, down, n) ==
  IF n = 0 THEN <<>>
  ELSE LET f == TemplateFiles[n]
           rest == readTemplates(files, down, n - 1)
       IN IF f \in files /\ f \notin down
          THEN Append(rest, [id |-> slugify(f.name), name |-> f.name, filePath |-> f.filePath])
          ELSE rest

\* one record of a batch: replace the record of that id, or add it at the end
upsertOne(collection, record) ==
  IF \E i \in 1..Len(collection) : collection[i].id = record.id
  THEN [i \in 1..Len(collection) |->
          IF collection[i].id = record.id THEN record ELSE collection[i]]
  ELSE Append(collection, record)

RECURSIVE upsertAll(_, _, _)
upsertAll(collection, batch, n) ==
  IF n = 0 THEN collection ELSE upsertOne(upsertAll(collection, batch, n - 1), batch[n])

\* faulty variant: the batch is added as new records
upsertAdds(collection, batch, strict) ==
  [threw |-> FALSE, collection |-> collection \o batch]

\* collection.upsert({ ids, ... })
upsert(collection, batch, strict) ==
  IF strict /\ \E i, j \in 1..Len(batch) : i # j /\ batch[i].id = batch[j].id
  THEN [threw |-> TRUE, collection |-> collection]
  ELSE [threw |-> FALSE, collection |-> upsertAll(collection, batch, Len(batch))]

\* indexTemplates(templateDirs): the collection, and the count returned
\* (NULL when the upsert threw)
indexTemplates(r) ==
  LET templates == readTemplates(r.files, r.down, Len(TemplateFiles))
      done == upsert(r.collection, templates, r.strict)
  IN IF templates = <<>> THEN [r EXCEPT !.runs = @ + 1, !.indexed = 0]
     ELSE IF done.threw THEN [r EXCEPT !.runs = @ + 1, !.indexed = NULL]
     ELSE [r EXCEPT !.runs = @ + 1, !.collection = done.collection,
                    !.indexed = Len(templates)]

\* collection.query({ nResults }): the positions of the n nearest records
RECURSIVE nearest(_, _, _)
nearest(S, dist, n) ==
  IF n = 0 \/ S = {} THEN <<>>
  ELSE LET m == CHOOSE i \in S :
                  \A j \in S : dist[i] < dist[j] \/ (dist[i] = dist[j] /\ i <= j)
       IN <<m>> \o nearest(S \ {m}, dist, n - 1)

\* const score = 1 - distance / 2
similarity(distance) == 100 - distance \div 2

RECURSIVE matchesOf(_, _, _, _)
matchesOf(collection, dist, ids, n) ==
  IF n = 0 THEN <<>>
  ELSE LET rest == matchesOf(collection, dist, ids, n - 1)
           score == similarity(dist[ids[n]])
       IN IF score < SimilarityThreshold THEN rest
          ELSE Append(rest, [id |-> collection[ids[n]].id,
                             name |-> collection[ids[n]].name, score |-> score])

\* search(query, topK): embedded is whether the query's embedding came back
\* with a vector, dist the distance of each record from it
search(collection, embedded, dist, topK) ==
  IF ~embedded THEN <<>>
  ELSE LET ids == nearest(1..Len(collection), dist, topK)
       IN matchesOf(collection, dist, ids, Len(ids))

\* ------------------------------------------------------------ HTTP surface
\* if (event.type === 'complete' || event.type === 'error')
isTerminal(ev) == ev.type \in {"complete", "error"}

Init ==
  /\ nextUuid = 1
  /\ activeDebates = {}
  /\ gen = <<>>
  /\ queue = <<>>
  /\ subs = [s \in Subscribers |-> [state |-> "idle", id |-> NoId, from |-> 0, obs |-> <<>>]]
  /\ dbTraces = {}
  /\ dbRounds = {}
  /\ client = NoCall
  /\ rag = indexTemplates(newRetriever({ChainOfThought}, {}, TRUE))

\* typeof query === 'string'
isString(query) == query \notin {Undefined, NotAString}

\* query.length of a string
length(query) ==
  IF query = "" THEN 0 ELSE IF query = LongQuery THEN MaxQueryLength + 1 ELSE 1

\* !query: undefined and the empty string are falsy
falsy(query) == query = Undefined \/ (isString(query) /\ length(query) = 0)

\* POST /api/reason: a query that is missing, empty or not a string is answered
\* 400 and nothing changes
PostReason(query, body) ==
  IF falsy(query) \/ ~isString(query)
  THEN UNCHANGED vars
  ELSE /\ LET traceId == nextUuid
              debateConfig == getDebateConfig(body)
          IN /\ nextUuid' = nextUuid + 1
             /\ gen' = gen @@ (traceId :> newGenerator(query, debateConfig))
             /\ queue' = queue @@ (traceId :> <<>>)
             /\ activeDebates' = activeDebates \cup {traceId}
       /\ UNCHANGED <<subs, dbTraces, dbRounds, client, rag>>

\* GET /api/reason/:id/stream up to the first generator.next(); the handlers
\* are numbered in the order their requests arrive, and from is the number of
\* events the debate had produced when the handler attached
Subscribe(s, id) ==
  /\ subs[s].state = "idle"
  /\ \A t \in 1..(s - 1) : subs[t].state # "idle"
  /\ IF id \in activeDebates
     THEN /\ subs' = [subs EXCEPT ![s] = [state |-> "streaming", id |-> id,
                                          from |-> Len(gen[id].events), obs |-> <<>>]]
          /\ queue' = [queue EXCEPT ![id] = Append(@, s)]
     ELSE /\ subs' = [subs EXCEPT ![s] = [state |-> "404", id |-> NoId, from |-> 0, obs |-> <<>>]]
          /\ UNCHANGED queue
  /\ UNCHANGED <<nextUuid, activeDebates, gen, dbTraces, dbRounds, client, rag>>

\* the generator answers the oldest pending next() with event ev and the
\* handler that asked writes it, then either cleans up and breaks (which calls
\* generator.return(), served after the next() calls already pending) or asks
\* again
Deliver(d, r) ==
  LET s == Head(queue[d])
  IN /\ gen' = [gen EXCEPT ![d] =
                  [r.g EXCEPT !.events = Append(@, r.ev),
                              !.pc = IF isTerminal(r.ev) /\ Len(queue[d]) = 1
                                     THEN "done" ELSE @]]
     /\ subs' = IF subs[s].state = "gone" THEN subs
                ELSE [subs EXCEPT ![s].obs = Append(@, r.ev),
                                  ![s].state = IF isTerminal(r.ev) THEN "closed" ELSE @]
     /\ activeDebates' = IF isTerminal(r.ev) THEN activeDebates \ {d} ELSE activeDebates
     /\ queue' = [queue EXCEPT ![d] = IF isTerminal(r.ev) THEN Tail(@) ELSE Append(Tail(@), s)]
     /\ UNCHANGED <<client, rag>>

Resumable(d, pcs) ==
  /\ d \in DOMAIN gen
  /\ queue[d] # <<>>
  /\ gen[d].pc \in pcs

\* run(): first next(); const traceId = randomUUID(); yield rag_start
Start(d) ==
  /\ Resumable(d, {"created"})
  /\ Deliver(d, [g |-> [gen[d] EXCEPT !.pc = "rag_start", !.traceId = nextUuid],
                 ev |-> [type |-> "rag_start"]])
  /\ nextUuid' = nextUuid + 1
  /\ UNCHANGED <<dbTraces, dbRounds>>

\* templates = await this.rag.search(...); yield rag_complete
RagSearch(d) ==
  /\ Resumable(d, {"rag_start"})
  /\ \E res \in RagResults \cup {<<"throw">>} :
       Deliver(d, IF res = <<"throw">> THEN failed(gen[d], "rag")
                  ELSE [g |-> [gen[d] EXCEPT !.pc = "rag_complete", !.templates = res,
                                             !.ragDuration = 1],
                        ev |-> [type |-> "rag_complete", templates |-> res]])
  /\ UNCHANGED <<nextUuid, dbTraces, dbRounds>>

\* entering the round loop after rag_complete
EnterLoop(d) ==
  /\ Resumable(d, {"rag_complete"})
  /\ Deliver(d, loopHead(gen[d], 1))
  /\ UNCHANGED <<nextUuid, dbTraces, dbRounds>>

\* buildProposerPrompt / buildSkepticPrompt, then yield *_start
TurnStart(d) ==
  /\ Resumable(d, {"round_start", "proposer_complete"})
  /\ \E promptOk \in BOOLEAN :
       Deliver(d, IF ~promptOk THEN failed(gen[d], "prompt")
                  ELSE IF gen[d].pc = "round_start"
                  THEN [g |-> [gen[d] EXCEPT !.pc = "proposer", !.proposerResponse = <<>>,
                                             !.ticks = 0],
                        ev |-> [type |-> "proposer_start", round |-> gen[d].round]]
                  ELSE [g |-> [gen[d] EXCEPT !.pc = "skeptic", !.skepticResponse = <<>>,
                                             !.ticks = 0],
                        ev |-> [type |-> "skeptic_start", round |-> gen[d].round]])
  /\ UNCHANGED <<nextUuid, dbTraces, dbRounds>>

\* one more chunk of this.ollama.chat(...) in the Proposer turn
ProposerChunk(d) ==
  /\ Resumable(d, {"proposer"})
  /\ gen[d].deltas < MaxDeltas
  /\ \E chunk \in ProposerDeltas :
       Deliver(d, [g |-> [gen[d] EXCEPT !.proposerResponse = accumulate(@, chunk),
                                        !.ticks = @ + 1, !.deltas = @ + 1],
                   ev |-> [type |-> "proposer_chunk", round |-> gen[d].round,
                           content |-> chunk]])
  /\ UNCHANGED <<nextUuid, dbTraces, dbRounds>>

ProposerComplete(d) ==
  /\ Resumable(d, {"proposer"})
  /\ Deliver(d, [g |-> [gen[d] EXCEPT !.pc = "proposer_complete",
                                      !.proposerDuration = gen[d].ticks],
                 ev |-> [type |-> "proposer_complete", round |-> gen[d].round,
                         content |-> gen[d].proposerResponse,
                         durationMs |-> gen[d].ticks]])
  /\ UNCHANGED <<nextUuid, dbTraces, dbRounds>>

SkepticChunk(d) ==
  /\ Resumable(d, {"skeptic"})
  /\ gen[d].deltas < MaxDeltas
  /\ \E chunk \in SkepticDeltas :
       Deliver(d, [g |-> [gen[d] EXCEPT !.skepticResponse = accumulate(@, chunk),
                                        !.ticks = @ + 1, !.deltas = @ + 1],
                   ev |-> [type |-> "skeptic_chunk", round |-> gen[d].round,
                           content |-> chunk]])
  /\ UNCHANGED <<nextUuid, dbTraces, dbRounds>>

SkepticComplete(d) ==
  /\ Resumable(d, {"skeptic"})
  /\ Deliver(d, [g |-> [gen[d] EXCEPT !.pc = "skeptic_complete"],
                 ev |-> [type |-> "skeptic_complete", round |-> gen[d].round,
                         content |-> gen[d].skepticResponse,
                         durationMs |-> gen[d].ticks]])
  /\ UNCHANGED <<nextUuid, dbTraces, dbRounds>>

\* record the round, check for early termination, go round the loop
RoundEnd(d) ==
  /\ Resumable(d, {"skeptic_complete"})
  /\ Deliver(d, afterSkeptic(gen[d]))
  /\ UNCHANGED <<nextUuid, dbTraces, dbRounds>>

\* break; yield synthesis_start
SynthesisStart(d) ==
  /\ Resumable(d, {"early_stop"})
  /\ Deliver(d, [g |-> [gen[d] EXCEPT !.pc = "synthesis", !.ticks = 0],
                 ev |-> [type |-> "synthesis_start"]])
  /\ UNCHANGED <<nextUuid, dbTraces, dbRounds>>

SynthesisChunk(d) ==
  /\ Resumable(d, {"synthesis"})
  /\ gen[d].deltas < MaxDeltas
  /\ \E chunk \in SynthesizerDeltas :
       Deliver(d, [g |-> [gen[d] EXCEPT !.finalAnswer = accumulate(@, chunk),
                                        !.ticks = @ + 1, !.deltas = @ + 1],
                   ev |-> [type |-> "synthesis_chunk", content |-> chunk]])
  /\ UNCHANGED <<nextUuid, dbTraces, dbRounds>>

SynthesisComplete(d) ==
  /\ Resumable(d, {"synthesis"})
  /\ Deliver(d, [g |-> [gen[d] EXCEPT !.pc = "synthesis_complete",
                                      !.synthesisDuration = gen[d].ticks],
                 ev |-> [type |-> "synthesis_complete", content |-> gen[d].finalAnswer,
                         durationMs |-> gen[d].ticks]])
  /\ UNCHANGED <<nextUuid, dbTraces, dbRounds>>

\* this.ollama.chat(...) (or the prompt builder before it) throws in a turn
ChatThrows(d) ==
  /\ Resumable(d, {"proposer", "skeptic", "synthesis"})
  /\ Deliver(d, failed(gen[d], "chat"))
  /\ UNCHANGED <<nextUuid, dbTraces, dbRounds>>

\* autoScore, build the trace, saveTrace, yield complete (or error)
SaveAndComplete(d) ==
  /\ Resumable(d, {"synthesis_complete"})
  /\ \E reply \in JudgeReplies, fault \in Faults :
       LET score == autoScore(reply)
           g     == [gen[d] EXCEPT !.judge = judged(reply)]
           trace == buildTrace(g, score.score)
           saved == saveTrace(dbTraces, dbRounds, trace, fault)
       IN IF score.threw
          THEN /\ UNCHANGED <<dbTraces, dbRounds>>
               /\ Deliver(d, failed(g, "judge"))
          ELSE /\ dbTraces' = saved.traces
               /\ dbRounds' = saved.rounds
               /\ Deliver(d, IF saved.ok
                             THEN [g |-> [g EXCEPT !.pc = "complete"],
                                   ev |-> [type |-> "complete", trace |-> trace]]
                             ELSE failed(g, "save"))
  /\ UNCHANGED nextUuid

\* a next() that reaches the generator after its terminal yield gets
\* {done: true}: that handler's for-await ends and it closes its reply
Done(d) ==
  /\ Resumable(d, {"complete", "error", "done"})
  /\ gen' = [gen EXCEPT ![d].pc = "done"]
  /\ subs' = [subs EXCEPT ![Head(queue[d])].state = IF @ = "gone" THEN @ ELSE "closed"]
  /\ queue' = [queue EXCEPT ![d] = Tail(@)]
  /\ UNCHANGED <<nextUuid, activeDebates, dbTraces, dbRounds, client, rag>>

\* faulty variant: the handler listens for the close of the connection and
\* stops asking the generator for events
DisconnectCancels(s) ==
  /\ subs[s].state = "streaming"
  /\ subs' = [subs EXCEPT ![s].state = "gone", ![s].from = 0, ![s].obs = <<>>]
  /\ queue' = [queue EXCEPT ![subs[s].id] = SelectSeq(@, LAMBDA t : t # s)]
  /\ UNCHANGED <<nextUuid, activeDebates, gen, dbTraces, dbRounds, client, rag>>

\* the client of a stream goes away.  The handler has no close listener: its
\* for-await goes on asking the generator for events, and what it writes to
\* the closed response is dropped.  What the client had received is of no
\* interest any more.
Disconnect(s) ==
  /\ subs[s].state = "streaming"
  /\ subs' = [subs EXCEPT ![s].state = "gone", ![s].from = 0, ![s].obs = <<>>]
  /\ UNCHANGED <<nextUuid, activeDebates, gen, queue, dbTraces, dbRounds, client, rag>>

\* faulty variant: the handler hands every rating to the store
rateHandlerUnchecked(traces, id, rating) ==
  [code |-> 200, traces |-> rateTrace(traces, id, rating)]

\* the handler of POST /api/traces/:id/rate: the status it answers with and
\* the traces table it leaves
rateHandler(traces, id, rating) ==
  IF rating < MinRating \/ rating > MaxRating
  THEN [code |-> 400, traces |-> traces]
  ELSE [code |-> 200, traces |-> rateTrace(traces, id, rating)]

\* POST /api/traces/:id/rate
RateTrace(id, rating) ==
  /\ dbTraces' = rateHandler(dbTraces, id, rating).traces
  /\ UNCHANGED <<nextUuid, activeDebates, gen, queue, subs, dbRounds, client, rag>>

Ids == 1..(nextUuid - 1)

Next ==
  \/ /\ Cardinality(DOMAIN gen) < MaxDebates
     /\ \E query \in Queries, body \in Bodies : PostReason(query, body)
  \/ \E s \in Subscribers, id \in Ids : Subscribe(s, id)
  \/ \E d \in Ids : Start(d)
  \/ \E d \in Ids : RagSearch(d)
  \/ \E d \in Ids : EnterLoop(d)
  \/ \E d \in Ids : TurnStart(d)
  \/ \E d \in Ids : ProposerChunk(d)
  \/ \E d \in Ids : ProposerComplete(d)
  \/ \E d \in Ids : SkepticChunk(d)
  \/ \E d \in Ids : SkepticComplete(d)
  \/ \E d \in Ids : RoundEnd(d)
  \/ \E d \in Ids : SynthesisStart(d)
  \/ \E d \in Ids : SynthesisChunk(d)
  \/ \E d \in Ids : SynthesisComplete(d)
  \/ \E d \in Ids : ChatThrows(d)
  \/ \E d \in Ids : SaveAndComplete(d)
  \/ \E d \in Ids : Done(d)
  \/ \E s \in Subscribers : Disconnect(s)
  \/ \E id \in Ids, rating \in Ratings : RateTrace(id, rating)

Spec == Init /\ [][Next]_vars

\* Admission under load: up to MaxLoad debates posted with the default
\* configuration, each streamed by its own client, followed up to the point
\* where the Proposer's chat request of round 1 is open.  The steps are the
\* steps of Spec.
LoadInit ==
  /\ nextUuid = 1
  /\ activeDebates = {}
  /\ gen = <<>>
  /\ queue = <<>>
  /\ subs = [s \in 1..MaxLoad |-> [state |-> "idle", id |-> NoId, from |-> 0, obs |-> <<>>]]
  /\ dbTraces = {}
  /\ dbRounds = {}
  /\ client = NoCall
  /\ rag = indexTemplates(newRetriever({ChainOfThought}, {}, TRUE))

LoadNext ==
  \/ /\ Cardinality(DOMAIN gen) < MaxLoad
     /\ \E query \in AnyQueries : PostReason(query, [maxRounds |-> 0, minRounds |-> 0])
  \/ \E s \in 1..MaxLoad, id \in Ids : id \in activeDebates /\ Subscribe(s, id)
  \/ \E d \in Ids : Start(d)
  \/ \E d \in Ids : RagSearch(d)
  \/ \E d \in Ids : EnterLoop(d)
  \/ \E d \in DOMAIN gen : gen[d].pc = "round_start" /\ TurnStart(d)

LoadSpec == LoadInit /\ [][LoadNext]_vars

\* ------------------------------------------------- calls of the OllamaClient
server == <<nextUuid, activeDebates, gen, queue, subs, dbTraces, dbRounds, rag>>

\* chat(options) / generate(options) is iterated, or embed(options) is called
Call(op) ==
  /\ client.pc \in {"idle", "done"}
  /\ client' = newCall(op)
  /\ UNCHANGED server

\* setTimeout(() => controller.abort(), this.timeout) comes due
TimerFires ==
  /\ client.timer = "armed"
  /\ client' = [client EXCEPT !.timer = "fired"]
  /\ UNCHANGED server

\* fetch rejects because the backend can not be reached
FetchRejects ==
  /\ client.pc = "fetching"
  /\ client.timer # "fired"
  /\ client' = withRetryCatch(client, "unreachable")
  /\ UNCHANGED server

\* fetch rejects with AbortError: the signal was aborted while the request
\* was pending, or before fetch was called
FetchAborts ==
  /\ client.pc = "fetching"
  /\ client.timer = "fired"
  /\ client' = withRetryCatch(client, "timeout")
  /\ UNCHANGED server

\* await new Promise(res => setTimeout(res, 1000 * 2 ** i)); i++; fn() again
BackoffEnds ==
  /\ client.pc = "backoff"
  /\ client' = [client EXCEPT !.pc = "fetching", !.i = @ + 1, !.fetches = @ + 1]
  /\ UNCHANGED server

\* fetch resolves: withRetry returns the response, the timer is cleared, and a
\* response that is not ok (404: the model is missing) is thrown; body is what
\* the backend is going to stream
FetchResolves(ok, body) ==
  /\ client.pc = "fetching"
  /\ client.timer # "fired"
  /\ (ok /\ client.op # "embed") \/ body = <<>>
  /\ client' = IF ~ok
                THEN [client EXCEPT !.pc = "done", !.outcome = "model_missing",
                                    !.timer = clearTimeout(@)]
                ELSE IF client.op = "embed"
                THEN [client EXCEPT !.pc = "done", !.outcome = "ok"]
                ELSE [client EXCEPT !.pc = "reading", !.timer = clearTimeout(@),
                                    !.body = body]
  /\ UNCHANGED server

\* a line of the body is parsed and its content yielded
ReadDelta ==
  /\ client.pc = "reading"
  /\ Len(client.yielded) < Len(client.body)
  /\ client' = [client EXCEPT !.yielded = Append(@, client.body[Len(@) + 1])]
  /\ UNCHANGED server

\* reader.read() reports done, or a line has done: true
ReadDone ==
  /\ client.pc = "reading"
  /\ Len(client.yielded) = Len(client.body)
  /\ client' = [client EXCEPT !.pc = "done", !.outcome = "ok"]
  /\ UNCHANGED server

\* faulty variant: a broken body stream is counted as a failed attempt of
\* withRetry, which fetches again
ReadFailsRetries ==
  /\ client.pc = "reading"
  /\ client' = withRetryCatch(client, "unreachable")
  /\ UNCHANGED server

\* reader.read() rejects: the connection broke while the body was streaming
ReadFails ==
  /\ client.pc = "reading"
  /\ client' = [client EXCEPT !.pc = "done", !.outcome = "unreachable"]
  /\ UNCHANGED server

ClientNext ==
  \/ \E op \in Methods : Call(op)
  \/ TimerFires
  \/ FetchRejects
  \/ FetchAborts
  \/ BackoffEnds
  \/ \E ok \in BOOLEAN, body \in ResponseBodies : FetchResolves(ok, body)
  \/ ReadDelta
  \/ ReadDone
  \/ ReadFails

ClientSpec == Init /\ [][ClientNext]_vars

\* ------------------------------------------- the body reader of chat
\* A reply is a sequence of records; a record has a text (message.content,
\* "" when it has none) and may have done: true.  On the wire a record is
\* "{", its text if any, "D" if done, "}", and records are separated by LF.
LF == "LF"
Texts == {"a", "b"}
Records == {[text |-> t, done |-> b] : t \in Texts \cup {""}, b \in BOOLEAN}
Replies == UNION {[1..n -> Records] : n \in 0..MaxRecords}

encode(record) ==
  <<"{">> \o (IF record.text # "" THEN <<record.text>> ELSE <<>>)
         \o (IF record.done THEN <<"D">> ELSE <<>>) \o <<"}">>

\* the bytes of a reply; the last record is followed by LF if terminated
RECURSIVE bytesOf(_, _, _)
bytesOf(reply, n, terminated) ==
  IF n = 0 THEN <<>>
  ELSE bytesOf(reply, n - 1, TRUE) \o encode(reply[n])
         \o (IF terminated THEN <<LF>> ELSE <<>>)

\* the network chunks of bytes cut after the positions of cuts
RECURSIVE chunksOf(_, _, _)
chunksOf(bytes, cuts, start) ==
  IF start > Len(bytes) THEN <<>>
  ELSE LET later == {c \in cuts : c >= start /\ c < Len(bytes)}
       IN IF later = {} THEN <<SubSeq(bytes, start, Len(bytes))>>
          ELSE LET c == CHOOSE x \in later : \A y \in later : x <= y
               IN <<SubSeq(bytes, start, c)>> \o chunksOf(bytes, cuts, c + 1)

\* buffer.split('\n'), for the first n characters of the buffer
RECURSIVE split(_, _)
split(buffer, n) ==
  IF n = 0 THEN << <<>> >>
  ELSE LET lines == split(buffer, n - 1)
       IN IF buffer[n] = LF THEN Append(lines, <<>>)
          ELSE [lines EXCEPT ![Len(lines)] = Append(@, buffer[n])]

\* JSON.parse(line): ok is whether it returns
parse(line) ==
  IF Len(line) >= 2 /\ line[1] = "{" /\ line[Len(line)] = "}"
  THEN LET inner == SubSeq(line, 2, Len(line) - 1)
       IN IF inner = <<>> THEN [ok |-> TRUE, text |-> "", done |-> FALSE]
          ELSE IF inner = <<"D">> THEN [ok |-> TRUE, text |-> "", done |-> TRUE]
          ELSE IF Len(inner) = 1 /\ inner[1] \in Texts
               THEN [ok |-> TRUE, text |-> inner[1], done |-> FALSE]
          ELSE IF Len(inner) = 2 /\ inner[1] \in Texts /\ inner[2] = "D"
               THEN [ok |-> TRUE, text |-> inner[1], done |-> TRUE]
          ELSE [ok |-> FALSE, text |-> "", done |-> FALSE]
  ELSE [ok |-> FALSE, text |-> "", done |-> FALSE]

\* for (const line of lines): skip blank and malformed lines, yield the
\* content, return at done
RECURSIVE forLines(_, _, _)
forLines(lines, i, yielded) ==
  IF i > Len(lines) THEN [yielded |-> yielded, returned |-> FALSE]
  ELSE LET p == parse(lines[i])
           y == IF p.ok /\ p.text # "" THEN Append(yielded, p.text) ELSE yielded
       IN IF lines[i] = <<>> \/ ~p.ok THEN forLines(lines, i + 1, yielded)
          ELSE IF p.done THEN [yielded |-> y, returned |-> TRUE]
          ELSE forLines(lines, i + 1, y)

\* the reader when the response has arrived: the chunks still to come, the
\* buffer and what has been yielded
newReader(reply, chunks) ==
  [op |-> "chat", pc |-> "reading", reply |-> reply, chunks |-> chunks,
   buffer |-> <<>>, yielded |-> <<>>, outcome |-> "none"]

\* one turn of while (true) with a chunk: decode, split, keep the last piece
readChunk(c) ==
  LET buffer == c.buffer \o Head(c.chunks)
      pieces == split(buffer, Len(buffer))
      lines == SubSeq(pieces, 1, Len(pieces) - 1)
      r == forLines(lines, 1, c.yielded)
  IN [c EXCEPT !.chunks = Tail(@), !.buffer = pieces[Len(pieces)],
               !.yielded = r.yielded,
               !.pc = IF r.returned THEN "done" ELSE "reading",
               !.outcome = IF r.returned THEN "ok" ELSE @]

StreamInit ==
  /\ nextUuid = 1
  /\ activeDebates = {}
  /\ gen = <<>>
  /\ queue = <<>>
  /\ subs = [s \in Subscribers |-> [state |-> "idle", id |-> NoId, from |-> 0, obs |-> <<>>]]
  /\ dbTraces = {}
  /\ dbRounds = {}
  /\ rag = indexTemplates(newRetriever({ChainOfThought}, {}, TRUE))
  /\ \E reply \in Replies, terminated \in BOOLEAN :
       LET bytes == bytesOf(reply, Len(reply), terminated)
       IN \E cuts \in {x \in SUBSET (1..(Len(bytes) - 1)) : Cardinality(x) <= MaxCuts} :
            client = newReader(reply, chunksOf(bytes, cuts, 1))

\* reader.read() resolves with a chunk
ReadChunk ==
  /\ client.pc = "reading"
  /\ client.chunks # <<>>
  /\ client' = readChunk(client)
  /\ UNCHANGED server

\* reader.read() resolves with done: break
ReadEnd ==
  /\ client.pc = "reading"
  /\ client.chunks = <<>>
  /\ client' = [client EXCEPT !.pc = "done", !.outcome = "ok"]
  /\ UNCHANGED server

StreamNext == ReadChunk \/ ReadEnd

StreamSpec == StreamInit /\ [][StreamNext]_vars

\* ------------------------------------------------------- shutdown signal
\* SIGINT or SIGTERM while a debate is running.  No handler is installed, so
\* the process ends there: the generators and the registry are gone with the
\* memory, the open streams are closed by the system with nothing more
\* written to them, and the store keeps what was committed.  The server that
\* is started next issues new uuids.
Shutdown ==
  /\ \E d \in DOMAIN gen : gen[d].pc \notin {"created", "complete", "error", "done", "killed"}
  /\ gen' = [d \in DOMAIN gen |->
               IF gen[d].pc \in {"complete", "error", "done"} THEN gen[d]
               ELSE [gen[d] EXCEPT !.pc = "killed"]]
  /\ activeDebates' = {}
  /\ queue' = [d \in DOMAIN queue |-> <<>>]
  /\ subs' = [s \in DOMAIN subs |->
                IF subs[s].state = "streaming" THEN [subs[s] EXCEPT !.state = "reset"]
                ELSE subs[s]]
  /\ UNCHANGED <<nextUuid, dbTraces, dbRounds, client, rag>>

ShutdownNext == Next \/ Shutdown

ShutdownSpec == Init /\ [][ShutdownNext]_vars

\* ------------------------------------------------- the retriever by itself
\* template directories, a backend and a collection as they may be found
RagInit ==
  /\ nextUuid = 1
  /\ activeDebates = {}
  /\ gen = <<>>
  /\ queue = <<>>
  /\ subs = [s \in Subscribers |-> [state |-> "idle", id |-> NoId, from |-> 0, obs |-> <<>>]]
  /\ dbTraces = {}
  /\ dbRounds = {}
  /\ client = NoCall
  /\ \E files \in SUBSET {TemplateFiles[i] : i \in 1..Len(TemplateFiles)}, strict \in BOOLEAN :
       \E down \in SUBSET files : rag = newRetriever(files, down, strict)

\* rag.indexTemplates(templateDirs): at startup, and whenever it is run again
IndexTemplates ==
  /\ rag.runs < MaxRuns
  /\ rag' = indexTemplates(rag)
  /\ UNCHANGED <<nextUuid, activeDebates, gen, queue, subs, dbTraces, dbRounds, client>>

\* rag.search(query, topK) of a debate
Search(embedded, dist, topK) ==
  /\ rag.indexed # NULL
  /\ rag' = [rag EXCEPT !.found = search(rag.collection, embedded, dist, topK)]
  /\ UNCHANGED <<nextUuid, activeDebates, gen, queue, subs, dbTraces, dbRounds, client>>

RagNext ==
  \/ IndexTemplates
  \/ \E embedded \in BOOLEAN, topK \in {1, DefaultTopK} :
       \E dist \in [1..Len(rag.collection) -> Distances] : Search(embedded, dist, topK)

RagSpec == RagInit /\ [][RagNext]_vars

\* a template file is deleted from its directory: fs.readdirSync of the next
\* run does not list it any more
RemoveFile(f) ==
  /\ f \in rag.files
  /\ rag' = [rag EXCEPT !.files = @ \ {f}, !.down = @ \ {f}]
  /\ UNCHANGED <<nextUuid, activeDebates, gen, queue, subs, dbTraces, dbRounds, client>>

\* the retriever over directories that lose files between the runs
ReindexNext ==
  \/ RagNext
  \/ \E f \in rag.files : RemoveFile(f)

ReindexSpec == RagInit /\ [][ReindexNext]_vars

\* one resumption of the generator of debate d
Step(d) ==
  \/ Start(d) \/ RagSearch(d) \/ EnterLoop(d) \/ TurnStart(d)
  \/ ProposerChunk(d) \/ ProposerComplete(d) \/ SkepticChunk(d) \/ SkepticComplete(d)
  \/ RoundEnd(d) \/ SynthesisStart(d) \/ SynthesisChunk(d) \/ SynthesisComplete(d)
  \/ ChatThrows(d) \/ SaveAndComplete(d) \/ Done(d)

\* every uuid a debate can have
DebateIds == 1..(2 * MaxDebates)

\* the event loop resumes a generator that has a next() pending, and the
\* backend answers or fails every request: a debate that can take a step
\* takes one.  Clients are under no obligation to post, subscribe or rate.
FairSpec == Spec /\ \A d \in DebateIds : WF_vars(Step(d))


\* --------------------------------------------------- vocabulary of the claims
Debates == DOMAIN gen

\* the handlers that are (or were) streaming debate d
SubscribersOf(d) == {s \in Subscribers : subs[s].id = d}

\* the handlers that are the only one ever attached to their debate, and
\* whose client is still there
SoleSubscribers ==
  {s \in Subscribers :
     subs[s].id # NoId /\ subs[s].state # "gone" /\ SubscribersOf(subs[s].id) = {s}}

Last(seq) == seq[Len(seq)]

TerminalEvent(e) == e.type = "complete" \/ e.type = "error"

\* the complete events of debate d (at most one)
Completions(d) == {i \in 1..Len(gen[d].events) : gen[d].events[i].type = "complete"}

Persisted(id) == getTrace(dbTraces, dbRounds, id) # NoTrace

\* the event grammar of a debate, as a recogniser: <<state, event type, state>>
Grammar ==
  {<<"init", "rag_start", "rag_start">>,
   <<"rag_start", "rag_complete", "rag_complete">>,
   <<"round_start", "proposer_start", "proposer">>,
   <<"proposer", "proposer_chunk", "proposer">>,
   <<"proposer", "proposer_complete", "proposer_complete">>,
   <<"proposer_complete", "skeptic_start", "skeptic">>,
   <<"skeptic", "skeptic_chunk", "skeptic">>,
   <<"skeptic", "skeptic_complete", "skeptic_complete">>,
   <<"skeptic_complete", "early_stop", "early_stop">>,
   <<"skeptic_complete", "synthesis_start", "synthesis">>,
   <<"early_stop", "synthesis_start", "synthesis">>,
   <<"synthesis", "synthesis_chunk", "synthesis">>,
   <<"synthesis", "synthesis_complete", "synthesis_complete">>,
   <<"synthesis_complete", "complete", "complete">>}

NextPhase(st, e) ==
  LET bad == [p |-> "bad", r |-> st.r]
      moves == {tr \in Grammar : tr[1] = st.p /\ tr[2] = e.type}
  IN IF st.p \in {"bad", "complete", "error"} THEN bad
     ELSE IF e.type = "error" THEN [p |-> "error", r |-> st.r]
     ELSE IF e.type = "round_start"
          THEN IF st.p \in {"rag_complete", "skeptic_complete"} /\ e.round = st.r + 1
               THEN [p |-> "round_start", r |-> e.round] ELSE bad
     ELSE IF moves # {} /\ ("round" \in DOMAIN e => e.round = st.r)
          THEN [p |-> (CHOOSE tr \in moves : TRUE)[3], r |-> st.r]
          ELSE bad

RECURSIVE Parse(_, _)
Parse(evs, n) ==
  IF n = 0 THEN [p |-> "init", r |-> 0] ELSE NextPhase(Parse(evs, n - 1), evs[n])

\* evs is a prefix of a sequence of the grammar, or such a prefix cut short by
\* one error event
WellFormed(evs) == Parse(evs, Len(evs)).p # "bad"

\* the concatenation of the content of the events of one type (and one round;
\* 0 for the Synthesizer's, which carry no round) among the first n events
RECURSIVE ChunkText(_, _, _, _)
ChunkText(evs, type, round, n) ==
  IF n = 0 THEN <<>>
  ELSE IF evs[n].type = type /\ (round = 0 \/ evs[n].round = round)
       THEN ChunkText(evs, type, round, n - 1) \o evs[n].content
       ELSE ChunkText(evs, type, round, n - 1)

\* ------------------------------------------------------------------ claims

\* C1: the events of every debate run, as emitted and as observed by its
\* subscriber, are rag_start, rag_complete, one or more rounds 1,2,3,... of
\* round_start, proposer_start, proposer_chunk*, proposer_complete,
\* skeptic_start, skeptic_chunk*, skeptic_complete, an optional early_stop,
\* synthesis_start, synthesis_chunk*, synthesis_complete, complete; or a
\* prefix of that cut short by one error event.
C1_EventOrder ==
  /\ \A d \in Debates : WellFormed(gen[d].events)
  /\ \A s \in SoleSubscribers : subs[s].obs = gen[subs[s].id].events

C3_DeltaConcat ==
  \A d \in Debates :
    LET evs == gen[d].events
    IN \A i \in 1..Len(evs) :
         /\ evs[i].type = "proposer_complete"
              => evs[i].content = ChunkText(evs, "proposer_chunk", evs[i].round, i)
         /\ evs[i].type = "skeptic_complete"
              => evs[i].content = ChunkText(evs, "skeptic_chunk", evs[i].round, i)
         /\ evs[i].type = "synthesis_complete"
              => evs[i].content = ChunkText(evs, "synthesis_chunk", 0, i)
         /\ evs[i].type = "complete"
              => /\ evs[i].trace.finalAnswer = ChunkText(evs, "synthesis_chunk", 0, i)
                 /\ \A k \in 1..Len(evs[i].trace.rounds) :
                      LET round == evs[i].trace.rounds[k]
                      IN /\ round.proposerResponse
                              = ChunkText(evs, "proposer_chunk", round.round, i)
                         /\ round.skepticResponse
                              = ChunkText(evs, "skeptic_chunk", round.round, i)

C3_Witness ==
  \E d \in Debates : \E i \in Completions(d) :
    \E k \in 1..Len(gen[d].events[i].trace.rounds) :
      Len(gen[d].events[i].trace.rounds[k].skepticResponse) = 2

\* the round loop of the run that produced this trace ended only because its
\* round reached maxRounds: no Skeptic text has the readiness sentinel and no
\* earlier round met the early-stop rule
EndedAtMaxRounds(config, trace) ==
  /\ Len(trace.rounds) = config.maxRounds
  /\ \A k \in 1..Len(trace.rounds) : ~Includes(trace.rounds[k].skepticResponse, READY)
  /\ \A k \in 1..(Len(trace.rounds) - 1) :
       k < config.minRounds \/ Includes(trace.rounds[k].skepticResponse, CRITICAL)

\* C4: a run whose round loop ends only because the round is maxRounds has a
\* trace with earlyStopped = false and totalRounds = maxRounds.
C4_MaxRoundsNotEarly ==
  \A d \in Debates : \A i \in Completions(d) :
    LET trace == gen[d].events[i].trace
    IN EndedAtMaxRounds(gen[d].config, trace)
         => ~trace.earlyStopped /\ trace.totalRounds = gen[d].config.maxRounds

C6_EarlyStopBounds ==
  \A d \in Debates : \A i \in Completions(d) :
    LET trace == gen[d].events[i].trace
    IN /\ trace.earlyStopped => trace.totalRounds <= gen[d].config.maxRounds
       /\ ~trace.earlyStopped => trace.totalRounds = gen[d].config.maxRounds

\* C7: every trace that getTrace returns has rounds numbered exactly
\* 1..totalRounds, totalRounds equal to the number of rounds, and
\* timing.roundsMs of length totalRounds.
C7_RoundsContiguous ==
  \A id \in Ids :
    LET trace == getTrace(dbTraces, dbRounds, id)
    IN Persisted(id)
         => /\ trace.totalRounds = Len(trace.rounds)
            /\ \A k \in 1..Len(trace.rounds) : trace.rounds[k].round = k
            /\ Len(trace.timing.roundsMs) = trace.totalRounds

C7_Witness ==
  \E id \in Ids : Persisted(id) /\ getTrace(dbTraces, dbRounds, id).totalRounds = 2

\* C8: the traceId that POST /api/reason returned is the id the debate's trace
\* is persisted under: once its stream has delivered complete, getTrace of
\* that id returns the debate's trace.
C8_ReturnedIdIsTraceId ==
  \A s \in Subscribers :
    (subs[s].id # NoId /\ \E i \in 1..Len(subs[s].obs) : subs[s].obs[i].type = "complete")
      => /\ Persisted(subs[s].id)
         /\ getTrace(dbTraces, dbRounds, subs[s].id).query = gen[subs[s].id].query

\* what a run's trace and the trace read back agree on: everything but the
\* creation time (C40) and the rating, which is set after the run
SameRun(stored, trace) ==
  [stored EXCEPT !.createdAt = trace.createdAt, !.userRating = trace.userRating] = trace

\* C9: complete is emitted only after the save of its trace succeeded, so
\* whenever a complete event has been emitted getTrace(trace.id) returns the
\* trace; when the save fails the run ends with error and has no complete.
C9_CompleteAfterSave ==
  \A d \in Debates :
    LET evs == gen[d].events
    IN /\ \A i \in Completions(d) :
            /\ Persisted(evs[i].trace.id)
            /\ SameRun(getTrace(dbTraces, dbRounds, evs[i].trace.id), evs[i].trace)
       /\ \A i \in 1..(Len(evs) - 1) :
            evs[i].type = "synthesis_complete"
              => \/ evs[i + 1].type = "complete" /\ Persisted(gen[d].traceId)
                 \/ evs[i + 1].type = "error" /\ ~Persisted(gen[d].traceId)

C9_Witness ==
  /\ \E d \in Debates : Completions(d) # {} /\ Len(gen[d].rounds) = 2
  /\ \E t \in dbTraces : t.user_rating # NULL

\* C10: when a debate ends with error, whatever threw, the store holds no
\* trace of it afterwards: no trace row and no round row.
C10_FailedLeavesNothing ==
  \A d \in Debates :
    (gen[d].events # <<>> /\ Last(gen[d].events).type = "error")
      => /\ ~\E t \in dbTraces : t.id = gen[d].traceId
         /\ ~\E r \in dbRounds : r.trace_id = gen[d].traceId

C10_Witness ==
  \E d \in Debates :
    /\ gen[d].events # <<>>
    /\ Last(gen[d].events) = [type |-> "error", error |-> "save"]
    /\ Len(gen[d].rounds) = 2

\* the traces a caller may hand to saveTrace in this state: the traces the runs
\* have built and the traces read back from the store, as they are, under an
\* id that is not in the store, with another query, and with their rounds
\* listed twice (round data that fails in the middle of the inserts)
SaveCandidates ==
  LET base == UNION {{gen[d].events[i].trace : i \in Completions(d)} : d \in Debates}
                \cup {getTrace(dbTraces, dbRounds, id) : id \in {i \in Ids : Persisted(i)}}
  IN base \cup {[t EXCEPT !.id = nextUuid] : t \in base}
          \cup {[t EXCEPT !.query = "other"] : t \in base}
          \cup {[t EXCEPT !.id = nextUuid, !.rounds = t.rounds \o t.rounds] : t \in base}

RowsOfTrace(rounds, id) == {r \in rounds : r.trace_id = id}

\* C11: saveTrace is all-or-nothing.  A save that succeeds adds the trace row
\* and one round row for every round of the trace, and touches nothing else; a
\* save that fails, for whatever reason, leaves the store exactly as it was; a
\* save under an id that is already in the store fails; and the store never
\* holds a trace row with only some of its rounds, nor rounds without their
\* trace row.
C11_SaveAtomic ==
  /\ \A t \in dbTraces : Cardinality(RowsOfTrace(dbRounds, t.id)) = t.total_rounds
  /\ \A r \in dbRounds : \E t \in dbTraces : t.id = r.trace_id
  /\ \A c \in SaveCandidates, fault \in Faults :
       LET r == saveTrace(dbTraces, dbRounds, c, fault)
           known == \E t \in dbTraces : t.id = c.id
           distinctRounds == \A i, j \in 1..Len(c.rounds) :
                               i # j => c.rounds[i].round # c.rounds[j].round
       IN /\ r.ok => /\ ~known
                      /\ r.traces = dbTraces \cup {traceRow(c.id, c)}
                      /\ r.rounds = dbRounds
                           \cup {roundRow(c.id, c.rounds[k]) : k \in 1..Len(c.rounds)}
                      /\ Cardinality(RowsOfTrace(r.rounds, c.id)) = Len(c.rounds)
          /\ ~r.ok => r.traces = dbTraces /\ r.rounds = dbRounds
          /\ known => ~r.ok
          /\ ~distinctRounds => ~r.ok
          /\ (fault = "none" /\ ~known /\ distinctRounds) => r.ok

C11_Witness ==
  \E t \in dbTraces :
    /\ t.total_rounds = 2
    /\ ~saveTrace(dbTraces, dbRounds,
                  [getTrace(dbTraces, dbRounds, t.id) EXCEPT !.query = "other"], "none").ok
    /\ \E c \in SaveCandidates :
         c.id = nextUuid /\ Len(c.rounds) = 4
           /\ ~saveTrace(dbTraces, dbRounds, c, "none").ok

\* C12: rating an id under which no trace is persisted, the id of a debate
\* in flight included, is answered 404 and leaves the store as it is.
C12_RateUnknownIs404 ==
  \A id \in Ids, rating \in MinRating..MaxRating :
    ~Persisted(id)
      => /\ rateHandler(dbTraces, id, rating).code = 404
         /\ rateHandler(dbTraces, id, rating).traces = dbTraces

Terminated(d) == d \in DOMAIN gen /\ gen[d].pc \in {"complete", "error", "done"}

\* C14: a debate started by POST /api/reason reaches its terminal event,
\* whether or not a client ever subscribes to its stream.
C14_RunsUnsubscribed ==
  \A d \in DebateIds : (d \in DOMAIN gen) ~> Terminated(d)

\* C15: when the client of a stream goes away before the terminal event the
\* debate still runs to its terminal event, and when that event is complete
\* its trace is in the store.
C15_DisconnectRunsOn ==
  \A s \in Subscribers :
    (subs[s].state = "gone")
      ~> /\ Terminated(subs[s].id)
         /\ Completions(subs[s].id) # {} => Persisted(gen[subs[s].id].traceId)

C15_Witness ==
  \E s \in Subscribers :
    /\ subs[s].state = "gone"
    /\ SubscribersOf(subs[s].id) = {s}
    /\ Completions(subs[s].id) # {}
    /\ Persisted(gen[subs[s].id].traceId)
    /\ Len(gen[subs[s].id].rounds) = 2

\* C16: a client that subscribes after N >= 1 events of the debate have been
\* produced receives the debate's events from the first one on, in order: the
\* N earlier events are replayed to it before any later one.
C16_SubscribeReplays ==
  \A s \in Subscribers :
    (subs[s].state \in {"streaming", "closed"} /\ subs[s].from >= 1)
      => /\ Len(subs[s].obs) <= Len(gen[subs[s].id].events)
         /\ \A i \in 1..Len(subs[s].obs) : subs[s].obs[i] = gen[subs[s].id].events[i]

\* C17: a subscribe to a debate that has reached its terminal event is
\* answered with the debate's stream, not with 404.
C17_SubscribeAfterTerminal ==
  [][\A s \in Subscribers, d \in DebateIds :
       (Terminated(d) /\ Subscribe(s, d)) => subs'[s].state # "404"]_vars

\* the orchestrator of debate d has begun and has not reached its terminal event
Executing(d) == gen[d].pc \notin {"created", "complete", "error", "done"}

\* C18: at no time are more debates executing than the concurrency cap of 2.
C18_ConcurrencyCap ==
  Cardinality({d \in Debates : Executing(d)}) <= ConcurrencyCap

\* C19: a chat call makes at most one retry, so it calls the backend at most
\* twice.
C19_AtMostOneRetry ==
  client.op = "chat" => client.fetches <= 2

\* C20: an attempt that fails with the timeout (the abort of the deadline) is
\* the last one of its call: no fetch is made after it.
C20_TimeoutNotRetried ==
  \A k \in 1..Len(client.errors) :
    client.errors[k] = "timeout" => client.fetches = k

C22_DeadlineCoversBody ==
  client.op \in {"chat", "generate"} /\ client.pc = "reading"
    => client.timer \in {"armed", "fired"}

\* the stored traces whose autoScore or userRating is at least q
Qualified(q) ==
  {getTrace(dbTraces, dbRounds, t.id) :
     t \in {r \in dbTraces : sqlGe(r.auto_score, q) \/ sqlGe(r.user_rating, q)}}

\* C24: for every quality level q, the traces selected for fine-tuning and
\* the traces listed with minQuality = q are exactly the stored traces whose
\* autoScore is at least q or whose userRating is at least q.
C24_QualitySelection ==
  \A q \in QualityLevels :
    /\ getFineTuneTraces(dbTraces, dbRounds, q) = Qualified(q)
    /\ listTraces(dbTraces, dbRounds, q) = Qualified(q)

\* C25: a POST /api/reason whose query is missing, is not a string, is empty
\* or is longer than MaxQueryLength characters is answered 400 and changes
\* nothing: every registered debate has a string query of 1 to MaxQueryLength
\* characters.
C25_BadQueryRejected ==
  \A d \in DOMAIN gen :
    /\ isString(gen[d].query)
    /\ length(gen[d].query) >= 1
    /\ length(gen[d].query) <= MaxQueryLength

\* I1 and I4 of a trace: its rounds are numbered 1..totalRounds in order and
\* it has one round time for each of them
ValidTrace(t) ==
  /\ Len(t.rounds) = t.totalRounds
  /\ \A i \in 1..Len(t.rounds) : t.rounds[i].round = i
  /\ Len(t.timing.roundsMs) = t.totalRounds

\* the traces the store may be offered: those the debates have built and those
\* read back from the store, under an id that is not in the store, as they are,
\* with totalRounds one too high, with the rounds numbered from 0, and with one
\* round time too many
OfferedTraces ==
  LET base == UNION {{gen[d].events[i].trace : i \in Completions(d)} : d \in Debates}
                \cup {getTrace(dbTraces, dbRounds, id) : id \in {i \in Ids : Persisted(i)}}
      fresh == {[t EXCEPT !.id = nextUuid] : t \in base}
  IN fresh \cup {[t EXCEPT !.totalRounds = @ + 1] : t \in fresh}
           \cup {[t EXCEPT !.rounds = [i \in 1..Len(@) |-> [@[i] EXCEPT !.round = i - 1]]] :
                   t \in fresh}
           \cup {[t EXCEPT !.timing.roundsMs = Append(@, 0)] : t \in fresh}

\* C26: saveTrace rejects, and writes nothing for, a trace whose rounds are not
\* numbered 1..totalRounds, whose totalRounds is not the number of its rounds,
\* or whose timing.roundsMs has not totalRounds entries.
C26_SaveValidates ==
  \A t \in OfferedTraces :
    ~ValidTrace(t) =>
      LET r == saveTrace(dbTraces, dbRounds, t, "none")
      IN ~r.ok /\ r.traces = dbTraces /\ r.rounds = dbRounds

\* C27: a judge that fails (its chat throws, or its reply holds no score)
\* never fails the debate: no error event is due to the judge, and when the
\* save goes through the debate completes with a trace that is in the store
\* and whose autoScore is null or the fallback score.
C27_JudgeFailureNotFatal ==
  \A d \in Debates :
    gen[d].judge = "failed" =>
      LET e == Last(gen[d].events)
      IN /\ e.type = "error" => e.error = "save"
         /\ e.type # "error" =>
              /\ e.type = "complete"
              /\ e.trace.autoScore \in {NULL, DefaultScore}
              /\ Persisted(e.trace.id)
              /\ getTrace(dbTraces, dbRounds, e.trace.id).autoScore = e.trace.autoScore

\* a debate whose judge failed has completed
C27_Witness ==
  \E d \in Debates :
    /\ gen[d].judge = "failed"
    /\ Last(gen[d].events).type = "complete"
    /\ Last(gen[d].events).trace.autoScore = DefaultScore

\* the match the fallback template is returned as
FallbackMatch ==
  [id |-> slugify(ChainOfThought.name), name |-> ChainOfThought.name, score |-> 50]

\* C23: when no record of the collection scores SimilarityThreshold or more,
\* search returns the fallback template alone, with score 0.5, or nothing if
\* the collection does not hold the fallback template.
C23_FallbackOnNoMatch ==
  rag.indexed # NULL =>
    \A topK \in {1, DefaultTopK} :
      \A dist \in [1..Len(rag.collection) -> Distances] :
        (\A i \in 1..Len(rag.collection) : similarity(dist[i]) < SimilarityThreshold)
          => search(rag.collection, TRUE, dist, topK)
               = IF \E i \in 1..Len(rag.collection) : rag.collection[i].id = FallbackMatch.id
                 THEN <<FallbackMatch>> ELSE <<>>

\* C28: indexTemplates run again over the same directories leaves the index
\* as one run makes it: the collection after two or more runs is the
\* collection one run builds, record for record, and no id is in it twice.
C28_ReindexIdempotent ==
  /\ rag.runs >= 2 =>
       rag.collection
         = indexTemplates(newRetriever(rag.files, rag.down, rag.strict)).collection
  /\ \A i, j \in 1..Len(rag.collection) :
       i # j => rag.collection[i].id # rag.collection[j].id

\* indexTemplates has run twice over two templates
C28_Witness ==
  /\ rag.runs = 2
  /\ rag.indexed = 2
  /\ Len(rag.collection) = 2

\* C30: POST /api/reason answers without waiting for any step of the debate:
\* the step that registers a debate leaves it not started, with no event
\* produced, and makes no retrieval, no backend call and no write to the store.
C30_PostDoesNotWait ==
  [][\A d \in DOMAIN gen' \ DOMAIN gen :
       /\ gen'[d].pc = "created"
       /\ gen'[d].events = <<>>
       /\ gen'[d].traceId = NoId
       /\ UNCHANGED <<dbTraces, dbRounds, client, rag, subs>>]_vars

\* a debate is registered and answered, and nothing of it has run
C30_Witness ==
  \E d \in Debates :
    /\ d \in activeDebates
    /\ gen[d].pc = "created"
    /\ gen[d].events = <<>>
    /\ nextUuid > d

\* C29: a debate cancelled by the shutdown signal after it has started leaves
\* no trace in the store and has failed as the last event of its stream.
C29_CancelledEndsFailed ==
  \A d \in Debates :
    gen[d].pc = "killed" /\ gen[d].events # <<>> =>
      /\ ~Persisted(gen[d].traceId)
      /\ Last(gen[d].events).type = "error"

\* C31: after round R < maxRounds whose Skeptic text S has no readiness
\* sentinel, round R+1 starts if and only if R < minRounds or S has the
\* critical marker; otherwise the debate stops after round R with
\* earlyStopped = true.
C31_ContinueRule ==
  \A d \in Debates :
    LET evs == gen[d].events
        config == gen[d].config
    IN \A i \in 1..(Len(evs) - 1) :
         (/\ evs[i].type = "skeptic_complete"
          /\ evs[i].round < config.maxRounds
          /\ ~Includes(evs[i].content, READY))
           => IF evs[i].round < config.minRounds \/ Includes(evs[i].content, CRITICAL)
              THEN /\ evs[i + 1].type = "round_start"
                   /\ evs[i + 1].round = evs[i].round + 1
              ELSE /\ evs[i + 1].type = "early_stop"
                   /\ gen[d].earlyStopped
                   /\ Len(gen[d].rounds) = evs[i].round
                   /\ \A j \in 1..Len(evs) : evs[j].type = "round_start" => j < i
                   /\ \A j \in Completions(d) :
                        evs[j].trace.earlyStopped /\ evs[j].trace.totalRounds = evs[i].round

\* a debate with minRounds 1 of maxRounds 2 has completed after round 1, whose
\* critique had neither the sentinel nor the critical marker
C31_Witness ==
  \E d \in Debates : \E j \in Completions(d) :
    LET trace == gen[d].events[j].trace
    IN /\ gen[d].config.minRounds = 1
       /\ gen[d].config.maxRounds = 2
       /\ trace.totalRounds = 1
       /\ trace.earlyStopped
       /\ ~Includes(trace.rounds[1].skepticResponse, READY)
       /\ ~Includes(trace.rounds[1].skepticResponse, CRITICAL)

\* C32: with minRounds = 3 the debate does not stop early before round 3,
\* readiness sentinel or not: no early_stop names a round below minRounds.
C32_NoStopBeforeMinRounds ==
  \A d \in Debates :
    gen[d].config.minRounds = DefaultMinRounds =>
      \A i \in 1..Len(gen[d].events) :
        gen[d].events[i].type = "early_stop" => gen[d].events[i].round >= DefaultMinRounds

\* what subscriber s has observed is the beginning of its debate's events
ObservedFromStart(s) ==
  /\ Len(subs[s].obs) <= Len(gen[subs[s].id].events)
  /\ \A i \in 1..Len(subs[s].obs) : subs[s].obs[i] = gen[subs[s].id].events[i]

\* C33: when two accepted streams of one debate overlap, each of them observes
\* the debate's events from the first one on, in the order of production, none
\* missing because the other stream took it.
C33_OverlappingStreams ==
  \A s, t \in Subscribers :
    (/\ s # t
     /\ subs[s].state \in {"streaming", "closed"}
     /\ subs[t].state \in {"streaming", "closed"}
     /\ subs[s].id = subs[t].id)
      => ObservedFromStart(s) /\ ObservedFromStart(t)

\* C34: every debate id that is registered is removed from activeDebates
\* later on, subscribed to or not.
C34_Evicted ==
  \A d \in DebateIds : (d \in activeDebates) ~> (d \notin activeDebates)

\* C35: every registered debate has a configuration with minRounds >= 1 and
\* maxRounds >= minRounds: a request whose configuration, completed with the
\* defaults, is not of that kind registers nothing.
C35_ConfigInRange ==
  \A d \in Debates :
    /\ gen[d].config.minRounds >= 1
    /\ gen[d].config.maxRounds >= gen[d].config.minRounds

\* the texts of the records of a reply, up to its first done record
RECURSIVE TextsUpToDone(_, _)
TextsUpToDone(reply, i) ==
  IF i > Len(reply) THEN <<>>
  ELSE (IF reply[i].text # "" THEN <<reply[i].text>> ELSE <<>>)
         \o (IF reply[i].done THEN <<>> ELSE TextsUpToDone(reply, i + 1))

\* C36: however the bytes of a reply are cut into chunks, and whether or not
\* its last record is followed by a newline, a chat that has ended has yielded
\* the texts of the reply's records in order, up to the done record: records
\* with neither text nor done count for nothing, nothing after done is yielded.
C36_DeltasAreTheReply ==
  client.pc = "done" => client.yielded = TextsUpToDone(client.reply, 1)

\* replies of the judge: a score object with 0, 7, 12 or 250, the chat
\* throwing, and text without a score object that holds a digit or none
AnyJudgeReplies ==
  {[kind |-> "json", score |-> n] : n \in {0, 7, 12, 250}}
    \cup {[kind |-> "throw"]}
    \cup {[kind |-> "text", digit |-> n] : n \in 0..10}

\* C37: the autoScore of every persisted trace is null or an integer of
\* 1..10, and so is the autoScore of the trace a debate that has finished its
\* synthesis is about to save, whatever the judge replies.
C37_AutoScoreInRange ==
  /\ \A t \in dbTraces : t.auto_score = NULL \/ t.auto_score \in MinScore..MaxScore
  /\ \A d \in Debates :
       gen[d].pc = "synthesis_complete" =>
         \A reply \in AnyJudgeReplies :
           LET trace == buildTrace(gen[d], autoScore(reply).score)
               saved == saveTrace(dbTraces, dbRounds, trace, "none")
           IN \A t \in saved.traces :
                t.auto_score = NULL \/ t.auto_score \in MinScore..MaxScore

\* a trace whose judge answered 12 is in the store with autoScore 10
C37_Witness ==
  \E d \in Debates : \E t \in dbTraces :
    /\ gen[d].judge = "scored"
    /\ t.id = gen[d].traceId
    /\ t.auto_score = MaxScore

\* the store of this state with one more trace in it: a copy of a persisted
\* trace saved under the next id
StoresWithTwo ==
  {saveTrace(dbTraces, dbRounds,
             [getTrace(dbTraces, dbRounds, t.id) EXCEPT !.id = nextUuid], "none") :
     t \in dbTraces}

\* rating trace id of a store changes the userRating of that trace and nothing
\* else: no other column of its row, no other row, no round
RateTouchesOnlyRating(traces, rounds, id, rating) ==
  LET h == rateHandler(traces, id, rating)
  IN /\ h.traces = {IF t.id = id THEN [t EXCEPT !.user_rating = rating] ELSE t :
                       t \in traces}
     /\ \A t \in traces :
          LET before == getTrace(traces, rounds, t.id)
              after == getTrace(h.traces, rounds, t.id)
          IN IF t.id = id
             THEN after = [before EXCEPT !.userRating = rating]
             ELSE after = before

\* C38: once a trace is persisted no step changes anything of it but its
\* userRating: every step keeps each trace row, but for user_rating, and the
\* round rows of each trace; and rating trace id, in a store of one trace or of
\* two, changes the userRating of that trace only.
C38_OnlyRatingChanges ==
  /\ [][\A t \in dbTraces :
          /\ \E u \in dbTraces' : u = [t EXCEPT !.user_rating = u.user_rating]
          /\ RowsOfTrace(dbRounds', t.id) = RowsOfTrace(dbRounds, t.id)]_vars
  /\ [](\A id \in Ids, rating \in {MinRating, MaxRating} :
          /\ RateTouchesOnlyRating(dbTraces, dbRounds, id, rating)
          /\ \A st \in StoresWithTwo :
               /\ RateTouchesOnlyRating(st.traces, st.rounds, id, rating)
               /\ RateTouchesOnlyRating(st.traces, st.rounds, nextUuid, rating))

\* a persisted trace of two rounds has been rated 7, and a second trace can
\* be stored next to it
C38_Witness ==
  /\ \E t \in dbTraces : t.user_rating = 7 /\ t.total_rounds = 2
  /\ \E st \in StoresWithTwo : st.ok /\ Cardinality(st.traces) = 2

\* the ids of the records of a collection
IdsOf(collection) == {collection[i].id : i \in 1..Len(collection)}

\* C39: after a run of indexTemplates that did not throw, the index holds
\* exactly the templates of the files that are in the directories and were
\* embedded, and search returns no other template: the template of a file
\* removed since the run before is gone.
C39_IndexIsDirectory ==
  [][(rag'.runs = rag.runs + 1 /\ rag'.indexed # NULL)
       => /\ IdsOf(rag'.collection) = {slugify(f.name) : f \in rag'.files \ rag'.down}
          /\ \A topK \in {1, DefaultTopK} :
               \A dist \in [1..Len(rag'.collection) -> Distances] :
                 LET found == search(rag'.collection, TRUE, dist, topK)
                 IN \A i \in 1..Len(found) :
                      found[i].id \in {slugify(f.name) : f \in rag'.files \ rag'.down}]_vars

\* the rounds of a trace handed over last round first
LastFirst(rounds) == [i \in 1..Len(rounds) |-> rounds[Len(rounds) + 1 - i]]

\* C40: getTrace(id) after a successful saveTrace(trace) returns the trace
\* that was saved, equal in every field, with its rounds in round-number
\* order even when they were handed over in another order.
C40_GetReturnsSaved ==
  \A d \in Debates :
    gen[d].pc = "synthesis_complete" =>
      \A reply \in JudgeReplies :
        LET trace == buildTrace(gen[d], autoScore(reply).score)
        IN \A given \in {trace, [trace EXCEPT !.rounds = LastFirst(trace.rounds)]} :
             LET saved == saveTrace(dbTraces, dbRounds, given, "none")
             IN saved.ok => getTrace(saved.traces, saved.rounds, trace.id) = trace

====
